---- MODULE Spec2Model ----
(***************************************************************************)
(* A model of cf-r2-sdk: the configuration Builder (src/src/builder.rs),   *)
(* the storage Operator (src/src/operator.rs) and the error taxonomy       *)
(* (src/src/error.rs).  The remote object-storage service and the local    *)
(* file system are the environment of the Operator.                        *)
(***************************************************************************)
EXTENDS Integers, Sequences, FiniteSets, TLC

VARIABLES
  builder,    \* the Builder value the caller holds (builder.rs:41-47)
  built,      \* the last build call: how it was made, from which builder, its outcome
  operator,   \* the Operator the Operator calls are made on (operator.rs:43-46)
  store,      \* the remote bucket: key -> None | Some(body)
  last,       \* the last Operator call: its arguments, the injected fault, its outcome
  requests,   \* the remote requests the last Operator call issued, in order
  lastWrite,  \* per key, the last call that changed the stored object (history)
  calls       \* per concurrent caller, its upload_binary call in progress

vars == <<builder, built, operator, store, last, requests, lastWrite, calls>>

----------------------------------------------------------------------------
(* Option<T> and Result<T, E>                                              *)

None == <<>>

Some(v) == <<v>>

IsSome(o) == Len(o) = 1

IsNone(o) == Len(o) = 0

\* Option::unwrap_or
UnwrapOr(o, d) == IF IsSome(o) THEN o[1] ELSE d

Ok(v) == [ok |-> TRUE, val |-> v]

Err(kind, msg) == [ok |-> FALSE, kind |-> kind, msg |-> msg]

IsOk(r) == r.ok

IsErr(r, kind) == (~r.ok) /\ r.kind = kind

Unit == "()"

----------------------------------------------------------------------------
(* Builder (src/src/builder.rs)                                            *)

BucketNames == {"", "test-bucket"}

AccessKeyIds == {"", "AKID"}

SecretAccessKeys == {"", "SECRET"}

Endpoints == {"", "https://r2.example"}

\* the default, a region name, and a string that names no region
Regions == {"auto", "wnam", ""}

\* impl Default for Builder
BuilderDefault ==
  [bucket_name |-> None, access_key_id |-> None, secret_access_key |-> None,
   endpoint |-> None, region |-> "auto"]

\* Operator::new
OperatorNew(bucket_name, client) == [bucket_name |-> bucket_name, client |-> client]

\* ConfigResult with a seeded fault: the client is always given the default region
ConfigResultDefaultRegion(access_key_id, secret_access_key, region, endpoint) ==
  [access_key_id |-> access_key_id, secret_access_key |-> secret_access_key,
   region |-> "auto", endpoint_url |-> endpoint,
   request_checksum_calculation |-> Some("WhenRequired"),
   response_checksum_validation |-> Some("WhenRequired")]

\* aws_sdk_s3::config::Builder as create_client_result fills it
ConfigResult(access_key_id, secret_access_key, region, endpoint) ==
  [access_key_id |-> access_key_id, secret_access_key |-> secret_access_key,
   region |-> region, endpoint_url |-> endpoint,
   request_checksum_calculation |-> Some("WhenRequired"),
   response_checksum_validation |-> Some("WhenRequired")]

\* aws_sdk_s3::config::Builder as the deprecated create_client fills it: the
\* checksum options are left unset
ConfigLegacy(access_key_id, secret_access_key, region, endpoint) ==
  [access_key_id |-> access_key_id, secret_access_key |-> secret_access_key,
   region |-> region, endpoint_url |-> endpoint,
   request_checksum_calculation |-> None,
   response_checksum_validation |-> None]

BucketNameNotSetError == "BucketNameNotSetError: Bucket name is not set."

AccessKeyIdNotSetError == "AccessKeyIdNotSetError: Access key id is not set."

SecretAccessKeyNotSetError == "SecretAccessKey: Secret access key is not set."

EndpointNotSetError == "EndpointNotSetError: Endpoint is not set."

\* CreateClientResult with a seeded fault: the access key id is checked before the bucket name
CreateClientResultKeyFirst(b) ==
  IF IsNone(b.access_key_id) THEN Err("BuilderError", AccessKeyIdNotSetError)
  ELSE IF IsNone(b.bucket_name) THEN Err("BuilderError", BucketNameNotSetError)
  ELSE IF IsNone(b.secret_access_key) THEN Err("BuilderError", SecretAccessKeyNotSetError)
  ELSE IF IsNone(b.endpoint) THEN Err("BuilderError", EndpointNotSetError)
  ELSE Ok(OperatorNew(b.bucket_name[1],
                      ConfigResult(b.access_key_id[1], b.secret_access_key[1],
                                   b.region, b.endpoint[1])))

\* Builder::create_client_result: the four matches in source order, then the client
CreateClientResult(b) ==
  IF IsNone(b.bucket_name) THEN Err("BuilderError", BucketNameNotSetError)
  ELSE IF IsNone(b.access_key_id) THEN Err("BuilderError", AccessKeyIdNotSetError)
  ELSE IF IsNone(b.secret_access_key) THEN Err("BuilderError", SecretAccessKeyNotSetError)
  ELSE IF IsNone(b.endpoint) THEN Err("BuilderError", EndpointNotSetError)
  ELSE Ok(OperatorNew(b.bucket_name[1],
                      ConfigResult(b.access_key_id[1], b.secret_access_key[1],
                                   b.region, b.endpoint[1])))

\* CreateClient with a seeded fault: the fields are checked in the order of create_client_result
CreateClientBucketFirst(b) ==
  IF IsNone(b.bucket_name) THEN Err("panic", "Bucket name is not set.")
  ELSE IF IsNone(b.access_key_id) THEN Err("panic", "Access key id is not set.")
  ELSE IF IsNone(b.secret_access_key) THEN Err("panic", "Secret access key is not set.")
  ELSE IF IsNone(b.endpoint) THEN Err("panic", "Endpoint is not set.")
  ELSE Ok(OperatorNew(b.bucket_name[1],
                      ConfigLegacy(b.access_key_id[1], b.secret_access_key[1],
                                   b.region, b.endpoint[1])))

\* CreateClient with a seeded fault: a missing bucket name becomes the empty name
CreateClientDefaultBucket(b) ==
  IF IsNone(b.access_key_id) THEN Err("panic", "Access key id is not set.")
  ELSE IF IsNone(b.secret_access_key) THEN Err("panic", "Secret access key is not set.")
  ELSE IF IsNone(b.endpoint) THEN Err("panic", "Endpoint is not set.")
  ELSE Ok(OperatorNew(UnwrapOr(b.bucket_name, ""),
                      ConfigLegacy(b.access_key_id[1], b.secret_access_key[1],
                                   b.region, b.endpoint[1])))

\* Builder::create_client (deprecated): the expect() calls in evaluation order
CreateClient(b) ==
  IF IsNone(b.access_key_id) THEN Err("panic", "Access key id is not set.")
  ELSE IF IsNone(b.secret_access_key) THEN Err("panic", "Secret access key is not set.")
  ELSE IF IsNone(b.endpoint) THEN Err("panic", "Endpoint is not set.")
  ELSE IF IsNone(b.bucket_name) THEN Err("panic", "Bucket name is not set.")
  ELSE Ok(OperatorNew(b.bucket_name[1],
                      ConfigLegacy(b.access_key_id[1], b.secret_access_key[1],
                                   b.region, b.endpoint[1])))

NoBuild == [via |-> "none", from |-> BuilderDefault, res |-> Ok(Unit)]

\* Builder::new
BuilderNew ==
  /\ builder' = BuilderDefault
  /\ UNCHANGED <<calls, built, operator, store, last, requests, lastWrite>>

SetBucketName(s) ==
  /\ builder' = [builder EXCEPT !.bucket_name = Some(s)]
  /\ UNCHANGED <<calls, built, operator, store, last, requests, lastWrite>>

SetAccessKeyId(s) ==
  /\ builder' = [builder EXCEPT !.access_key_id = Some(s)]
  /\ UNCHANGED <<calls, built, operator, store, last, requests, lastWrite>>

SetSecretAccessKey(s) ==
  /\ builder' = [builder EXCEPT !.secret_access_key = Some(s)]
  /\ UNCHANGED <<calls, built, operator, store, last, requests, lastWrite>>

\* SetEndpoint with a seeded fault: an empty string is refused and the field keeps its value
SetEndpointNonEmpty(s) ==
  /\ builder' = IF s = "" THEN builder ELSE [builder EXCEPT !.endpoint = Some(s)]
  /\ UNCHANGED <<calls, built, operator, store, last, requests, lastWrite>>

SetEndpoint(s) ==
  /\ builder' = [builder EXCEPT !.endpoint = Some(s)]
  /\ UNCHANGED <<calls, built, operator, store, last, requests, lastWrite>>

SetRegion(s) ==
  /\ builder' = [builder EXCEPT !.region = s]
  /\ UNCHANGED <<calls, built, operator, store, last, requests, lastWrite>>

\* DoCreateClientResult with a seeded fault: a successful build moves the credentials out of
\* the builder
DoCreateClientResultTaking ==
  /\ built' = [via |-> "create_client_result", from |-> builder,
               res |-> CreateClientResult(builder)]
  /\ builder' = IF IsOk(CreateClientResult(builder))
                THEN [builder EXCEPT !.access_key_id = None, !.secret_access_key = None]
                ELSE builder
  /\ UNCHANGED <<calls, operator, store, last, requests, lastWrite>>

\* DoCreateClientResult with a seeded fault: a successful build probes the bucket with a
\* listing request
DoCreateClientResultProbing ==
  /\ built' = [via |-> "create_client_result", from |-> builder,
               res |-> CreateClientResult(builder)]
  /\ requests' = IF IsOk(CreateClientResult(builder))
                 THEN <<[op |-> "list_objects_v2",
                         bucket |-> CreateClientResult(builder).val.bucket_name,
                         max_keys |-> 1]>>
                 ELSE requests
  /\ UNCHANGED <<calls, builder, operator, store, last, lastWrite>>

\* a call of create_client_result(&self): the builder is only read
DoCreateClientResult ==
  /\ built' = [via |-> "create_client_result", from |-> builder,
               res |-> CreateClientResult(builder)]
  /\ UNCHANGED <<calls, builder, operator, store, last, requests, lastWrite>>

\* a call of the deprecated create_client(&self)
DoCreateClient ==
  /\ built' = [via |-> "create_client", from |-> builder, res |-> CreateClient(builder)]
  /\ UNCHANGED <<calls, builder, operator, store, last, requests, lastWrite>>

----------------------------------------------------------------------------
(* The environment: the remote service behind aws_sdk_s3::Client and the   *)
(* local file system                                                       *)

MaxListKeys == 11

MaxLen == 1

\* the key names, in the byte order in which the service lists them
KeyNames == <<"Unknown", "a", "b", "c", "d", "e", "f", "g", "h", "i", "j", "k", "l", "m">>

ListKeys == {KeyNames[i] : i \in 1..MaxListKeys}

\* the keys the single-object calls are made on
OpsKeys == {"Unknown", "a"}

Keys == ListKeys \cup OpsKeys

Bytes == {0, 1}

Bodies == UNION {[1..n -> Bytes] : n \in 0..MaxLen}

MimeTypes == {"text/plain", "image/jpeg"}

CacheControls == {None, Some("max-age=60")}

\* the one bucket that exists on the service
ServiceBucket == "test-bucket"

\* the local files: path -> None (cannot be opened) | Some(content)
FileSystem ==
  [p \in {"./data/sample.jpg", "./data/empty.bin", "./data/missing.jpg"} |->
     CASE p = "./data/sample.jpg" -> Some(<<1, 0>>)
       [] p = "./data/empty.bin" -> Some(<<>>)
       [] OTHER -> None]

Paths == DOMAIN FileSystem

\* what the environment does to one request: "none" (served), "rejected" (fails,
\* not applied), "lost" (applied, but the response is lost and the call fails),
\* "body" (a get whose response arrives but whose body cannot be read to its
\* end), "read" (a local file that opens but cannot be read to its end)
WriteFaults == {"none", "rejected", "lost"}

ReadFaults == {"none", "rejected", "body"}

FileFaults == WriteFaults \cup {"read"}

\* the text of the SdkError a failed request carries
SdkErrorText(req, fault) ==
  IF fault \in {"rejected", "lost"} THEN "dispatch failure"
  ELSE IF req.bucket /= ServiceBucket THEN "service error: NoSuchBucket"
  ELSE "service error: NoSuchKey"

\* whether the service applies a request to the bucket
Applied(req, fault) == req.bucket = ServiceBucket /\ fault \in {"none", "lost"}

\* whether the caller gets a successful response
Served(req, fault) == req.bucket = ServiceBucket /\ fault \notin {"rejected", "lost"}

\* ByteStream: the body as the segments it travels in
ByteStreamFrom(vec) == [segments |-> IF vec = <<>> THEN <<>> ELSE <<vec>>, broken |-> FALSE]

RECURSIVE Concat(_)
Concat(segments) ==
  IF segments = <<>> THEN <<>> ELSE Head(segments) \o Concat(Tail(segments))

\* the service sends a stored body one byte per segment
Segmented(body) == [i \in 1..Len(body) |-> <<body[i]>>]

\* ByteStream::collect, then AggregatedBytes::into_bytes
Collect(stream) ==
  IF stream.broken THEN Err("ByteStreamError", "streaming error")
  ELSE Ok(Concat(stream.segments))

\* put_object ... send(): the bucket afterwards and the SDK's result
ServicePut(st, req, fault) ==
  [store |-> IF Applied(req, fault)
             THEN [st EXCEPT ![req.key] = Some(Concat(req.body.segments))] ELSE st,
   sent |-> IF Served(req, fault) THEN Ok(Unit) ELSE Err("SdkError", SdkErrorText(req, fault))]

\* delete_object ... send(): deleting an absent key is served like any other delete
ServiceDelete(st, req, fault) ==
  [store |-> IF Applied(req, fault) THEN [st EXCEPT ![req.key] = None] ELSE st,
   sent |-> IF Served(req, fault) THEN Ok(Unit) ELSE Err("SdkError", SdkErrorText(req, fault))]

\* get_object ... send(): an absent key is a failed request
ServiceGet(st, req, fault) ==
  IF Served(req, fault) /\ IsSome(st[req.key])
  THEN Ok([body |-> [segments |-> Segmented(st[req.key][1]), broken |-> fault = "body"]])
  ELSE Err("SdkError", SdkErrorText(req, fault))

\* list_objects_v2 ... into_paginator().send(): the stored keys in key order, at
\* most max_keys entries a page, always at least one page; the entries of the
\* keys in `keyless` come back without a key; the page request number failAt
\* (when not 0) fails and ends the stream
Entries(st, keyless) ==
  LET Stored(k) == k \in DOMAIN st /\ IsSome(st[k])
      listed == SelectSeq(KeyNames, Stored)
  IN [n \in 1..Len(listed) |->
        [key |-> IF listed[n] \in keyless THEN None ELSE Some(listed[n])]]

NumPages(entries, max_keys) ==
  IF Len(entries) = 0 THEN 1 ELSE (Len(entries) + max_keys - 1) \div max_keys

Page(entries, max_keys, p) ==
  [contents |-> SubSeq(entries, (p - 1) * max_keys + 1,
                       IF p * max_keys < Len(entries) THEN p * max_keys ELSE Len(entries))]

ServicePages(st, req, keyless, failAt) ==
  LET entries == Entries(st, keyless)
      n == NumPages(entries, req.max_keys)
      bad == IF req.bucket /= ServiceBucket THEN 1 ELSE failAt
      fault == IF req.bucket /= ServiceBucket THEN "none" ELSE "rejected"
  IN [p \in 1..(IF bad = 0 \/ bad > n THEN n ELSE bad) |->
        IF p = bad THEN Err("SdkError", SdkErrorText(req, fault))
        ELSE Ok(Page(entries, req.max_keys, p))]

----------------------------------------------------------------------------
(* Operator (src/src/operator.rs)                                          *)

FileOpenError == "FileOpenError"

AWSSdkS3PutObjectError == "AWSSdkS3PutObjectError"

AWSSdkS3GetObjectError == "AWSSdkS3GetObjectError"

AWSSdkS3DeleteObjectError == "AWSSdkS3DeleteObjectError"

AWSSdkS3ListObjectsV2Error == "AWSSdkS3ListObjectsV2Error"

AWSSdkS3ByteStreamError == "AWSSdkS3ByteStreamError"

\* max_keys(10)
MaxKeysPerPage == 10

\* binary.to_vec(), result.into_bytes().to_vec(): a copy of the bytes
ToVec(bytes) == [i \in 1..Len(bytes) |-> bytes[i]]

\* UploadBinaryRequest with a seeded fault: the body loses its last byte
UploadBinaryRequestTruncated(self, file_name, mime_type, binary, cache_control) ==
  [op |-> "put_object", bucket |-> self.bucket_name, key |-> file_name,
   content_type |-> mime_type, cache_control |-> UnwrapOr(cache_control, "no-cache"),
   body |-> ByteStreamFrom(IF binary = <<>> THEN <<>>
                           ELSE SubSeq(ToVec(binary), 1, Len(binary) - 1))]

\* the put_object request of upload_binary
UploadBinaryRequest(self, file_name, mime_type, binary, cache_control) ==
  [op |-> "put_object", bucket |-> self.bucket_name, key |-> file_name,
   content_type |-> mime_type, cache_control |-> UnwrapOr(cache_control, "no-cache"),
   body |-> ByteStreamFrom(ToVec(binary))]

\* the match on the put_object result in upload_binary
UploadBinaryResult(sent) ==
  IF IsOk(sent) THEN Ok(Unit) ELSE Err(AWSSdkS3PutObjectError, sent.msg)

\* ReadFile with a seeded fault: one read of one byte instead of read_to_end
ReadFileOneRead(file_path, fault) ==
  IF IsNone(FileSystem[file_path]) THEN Err(FileOpenError, "No such file or directory")
  ELSE IF fault = "read" THEN Err(FileOpenError, "Input/output error")
  ELSE Ok(IF FileSystem[file_path][1] = <<>> THEN <<>> ELSE <<FileSystem[file_path][1][1]>>)

\* ReadFile with a seeded fault: a file that cannot be opened aborts the caller
ReadFileExpect(file_path, fault) ==
  IF IsNone(FileSystem[file_path]) THEN Err("panic", "Failed to open file")
  ELSE IF fault = "read" THEN Err(FileOpenError, "Input/output error")
  ELSE Ok(FileSystem[file_path][1])

\* File::open(file_path).await? and file.read_to_end(&mut buffer).await?
ReadFile(file_path, fault) ==
  IF IsNone(FileSystem[file_path]) THEN Err(FileOpenError, "No such file or directory")
  ELSE IF fault = "read" THEN Err(FileOpenError, "Input/output error")
  ELSE Ok(FileSystem[file_path][1])

\* UploadFileRequest with a seeded fault: the supplied cache-control value is not used
UploadFileRequestNoCacheOnly(self, file_name, mime_type, buffer, cache_control) ==
  [op |-> "put_object", bucket |-> self.bucket_name, key |-> file_name,
   content_type |-> mime_type, cache_control |-> "no-cache",
   body |-> ByteStreamFrom(buffer)]

\* the put_object request of upload_file
UploadFileRequest(self, file_name, mime_type, buffer, cache_control) ==
  [op |-> "put_object", bucket |-> self.bucket_name, key |-> file_name,
   content_type |-> mime_type, cache_control |-> UnwrapOr(cache_control, "no-cache"),
   body |-> ByteStreamFrom(buffer)]

\* UploadFileResult with a seeded fault: a failed request is reported as a file error
UploadFileResultAsFileError(sent) ==
  IF IsOk(sent) THEN Ok(Unit) ELSE Err(FileOpenError, sent.msg)

\* the match on the put_object result in upload_file
UploadFileResult(sent) ==
  IF IsOk(sent) THEN Ok(Unit) ELSE Err(AWSSdkS3PutObjectError, sent.msg)

\* the get_object request of download
DownloadRequest(self, file_name) ==
  [op |-> "get_object", bucket |-> self.bucket_name, key |-> file_name]

\* DownloadResult with a seeded fault: a failed request yields an empty body
DownloadResultSwallow(sent) ==
  IF ~IsOk(sent)
  THEN [res |-> Ok(<<>>), steps |-> <<"send">>]
  ELSE [res |-> IF IsOk(Collect(sent.val.body))
                THEN Ok(ToVec(Collect(sent.val.body).val))
                ELSE Err(AWSSdkS3ByteStreamError, Collect(sent.val.body).msg),
        steps |-> <<"send", "collect">>]

\* DownloadResult with a seeded fault: the two error kinds interchanged
DownloadResultSwapped(sent) ==
  IF ~IsOk(sent)
  THEN [res |-> Err(AWSSdkS3ByteStreamError, sent.msg), steps |-> <<"send">>]
  ELSE [res |-> IF IsOk(Collect(sent.val.body))
                THEN Ok(ToVec(Collect(sent.val.body).val))
                ELSE Err(AWSSdkS3GetObjectError, Collect(sent.val.body).msg),
        steps |-> <<"send", "collect">>]

\* the two matches of download: the request's result, then the body's; `steps`
\* lists what download awaited
DownloadResult(sent) ==
  IF ~IsOk(sent)
  THEN [res |-> Err(AWSSdkS3GetObjectError, sent.msg), steps |-> <<"send">>]
  ELSE [res |-> IF IsOk(Collect(sent.val.body))
                THEN Ok(ToVec(Collect(sent.val.body).val))
                ELSE Err(AWSSdkS3ByteStreamError, Collect(sent.val.body).msg),
        steps |-> <<"send", "collect">>]

\* DeleteRequest with a seeded fault: bucket and key interchanged
DeleteRequestSwapped(self, file_name) ==
  [op |-> "delete_object", bucket |-> file_name, key |-> self.bucket_name]

\* the delete_object request of delete
DeleteRequest(self, file_name) ==
  [op |-> "delete_object", bucket |-> self.bucket_name, key |-> file_name]

\* DeleteResult with a seeded fault: a failed delete is reported with the kind of a put
DeleteResultAsPutError(sent) ==
  IF IsOk(sent) THEN Ok(Unit) ELSE Err(AWSSdkS3PutObjectError, sent.msg)

\* the match on the delete_object result in delete
DeleteResult(sent) ==
  IF IsOk(sent) THEN Ok(Unit) ELSE Err(AWSSdkS3DeleteObjectError, sent.msg)

\* the list_objects_v2 request of list_objects
ListObjectsRequest(self) ==
  [op |-> "list_objects_v2", bucket |-> self.bucket_name, max_keys |-> MaxKeysPerPage]

\* PushKeys with a seeded fault: each key is inserted at the front of the vector
RECURSIVE PushKeysFront(_, _)
PushKeysFront(objects, contents) ==
  IF contents = <<>> THEN objects
  ELSE PushKeysFront(<<UnwrapOr(Head(contents).key, "Unknown")>> \o objects, Tail(contents))

\* PushKeys with a seeded fault: an entry without a key is skipped
RECURSIVE PushKeysSkipKeyless(_, _)
PushKeysSkipKeyless(objects, contents) ==
  IF contents = <<>> THEN objects
  ELSE PushKeysSkipKeyless(IF IsSome(Head(contents).key)
                           THEN Append(objects, Head(contents).key[1]) ELSE objects,
                           Tail(contents))

\* for object in output.contents() { objects.push(object.key().unwrap_or("Unknown")) }
RECURSIVE PushKeys(_, _)
PushKeys(objects, contents) ==
  IF contents = <<>> THEN objects
  ELSE PushKeys(Append(objects, UnwrapOr(Head(contents).key, "Unknown")), Tail(contents))

\* ListObjectsLoop with a seeded fault: a failed page ends the loop and the keys gathered
\* so far are returned
RECURSIVE ListObjectsLoopSwallow(_, _)
ListObjectsLoopSwallow(objects, response) ==
  IF response = <<>> THEN Ok(objects)
  ELSE IF IsOk(Head(response))
       THEN ListObjectsLoopSwallow(objects \o [i \in 1..Len(Head(response).val.contents) |->
                                      UnwrapOr(Head(response).val.contents[i].key, "Unknown")],
                                   Tail(response))
       ELSE Ok(objects)

\* while let Some(result) = response.next().await { match result { ... } }
RECURSIVE ListObjectsLoop(_, _)
ListObjectsLoop(objects, response) ==
  IF response = <<>> THEN Ok(objects)
  ELSE IF IsOk(Head(response))
       THEN ListObjectsLoop(PushKeys(objects, Head(response).val.contents), Tail(response))
       ELSE Err(AWSSdkS3ListObjectsV2Error, Head(response).msg)

\* the number of response.next().await calls that yield a page result: the loop
\* returns at the first failed one
RECURSIVE PagesPulled(_)
PagesPulled(response) ==
  IF response = <<>> THEN 0
  ELSE IF IsOk(Head(response)) THEN 1 + PagesPulled(Tail(response))
  ELSE 1

\* ListObjectsResult with a seeded fault: only the first page is read
ListObjectsResultFirstPage(response) == ListObjectsLoop(<<>>, SubSeq(response, 1, 1))

\* list_objects: let mut objects = Vec::new(); the loop; Ok(objects)
ListObjectsResult(response) == ListObjectsLoop(<<>>, response)

NoCall ==
  [op |-> "none", key |-> "", src |-> <<>>, mime_type |-> "", cache_control |-> None,
   fault |-> "none", res |-> Ok(Unit), steps |-> <<>>]

NoWrite == [op |-> "none"]

\* UploadBinary with a seeded fault: a failed request is sent a second time
UploadBinaryRetry(file_name, mime_type, binary, cache_control, fault) ==
  LET req == UploadBinaryRequest(operator, file_name, mime_type, binary, cache_control)
      first == ServicePut(store, req, fault)
      again == ~IsOk(first.sent)
      out == IF again THEN ServicePut(first.store, req, "none") ELSE first
  IN /\ store' = out.store
     /\ requests' = IF again THEN <<req, req>> ELSE <<req>>
     /\ last' = [op |-> "upload_binary", key |-> file_name, src |-> binary,
                 mime_type |-> mime_type, cache_control |-> cache_control,
                 fault |-> fault, res |-> UploadBinaryResult(out.sent),
                 steps |-> <<"send">>]
     /\ lastWrite' = IF Applied(req, fault) \/ (again /\ Applied(req, "none"))
                     THEN [lastWrite EXCEPT ![file_name] =
                             [op |-> "upload_binary", src |-> binary]]
                     ELSE lastWrite
     /\ UNCHANGED <<calls, builder, built, operator>>

\* Operator::upload_binary
UploadBinary(file_name, mime_type, binary, cache_control, fault) ==
  LET req == UploadBinaryRequest(operator, file_name, mime_type, binary, cache_control)
      out == ServicePut(store, req, fault)
  IN /\ store' = out.store
     /\ requests' = <<req>>
     /\ last' = [op |-> "upload_binary", key |-> file_name, src |-> binary,
                 mime_type |-> mime_type, cache_control |-> cache_control,
                 fault |-> fault, res |-> UploadBinaryResult(out.sent),
                 steps |-> <<"send">>]
     /\ lastWrite' = IF Applied(req, fault)
                     THEN [lastWrite EXCEPT ![file_name] =
                             [op |-> "upload_binary", src |-> binary]]
                     ELSE lastWrite
     /\ UNCHANGED <<calls, builder, built, operator>>

\* Operator::upload_file: the file is read to its end before the request is made
UploadFile(file_name, mime_type, file_path, cache_control, fault) ==
  LET read == ReadFile(file_path, fault)
      req == UploadFileRequest(operator, file_name, mime_type, read.val, cache_control)
      out == ServicePut(store, req, fault)
  IN /\ store' = IF IsOk(read) THEN out.store ELSE store
     /\ requests' = IF IsOk(read) THEN <<req>> ELSE <<>>
     /\ last' = [op |-> "upload_file", key |-> file_name, src |-> file_path,
                 mime_type |-> mime_type, cache_control |-> cache_control,
                 fault |-> fault,
                 res |-> IF IsOk(read) THEN UploadFileResult(out.sent) ELSE read,
                 steps |-> IF IsOk(read) THEN <<"read", "send">> ELSE <<"read">>]
     /\ lastWrite' = IF IsOk(read) /\ Applied(req, fault)
                     THEN [lastWrite EXCEPT ![file_name] =
                             [op |-> "upload_file", src |-> file_path]]
                     ELSE lastWrite
     /\ UNCHANGED <<calls, builder, built, operator>>

\* Operator::download
Download(file_name, fault) ==
  LET req == DownloadRequest(operator, file_name)
      out == DownloadResult(ServiceGet(store, req, fault))
  IN /\ requests' = <<req>>
     /\ last' = [op |-> "download", key |-> file_name, src |-> <<>>,
                 mime_type |-> "", cache_control |-> None,
                 fault |-> fault, res |-> out.res, steps |-> out.steps]
     /\ UNCHANGED <<calls, builder, built, operator, store, lastWrite>>

\* Delete with a seeded fault: the key is looked up first and a missing key is an error
DeleteWithPreCheck(file_name, fault) ==
  LET probe == DownloadRequest(operator, file_name)
      found == ServiceGet(store, probe, fault)
      req == DeleteRequest(operator, file_name)
      out == ServiceDelete(store, req, fault)
  IN /\ store' = IF IsOk(found) THEN out.store ELSE store
     /\ requests' = IF IsOk(found) THEN <<probe, req>> ELSE <<probe>>
     /\ last' = [op |-> "delete", key |-> file_name, src |-> <<>>,
                 mime_type |-> "", cache_control |-> None,
                 fault |-> fault,
                 res |-> IF IsOk(found) THEN DeleteResult(out.sent)
                         ELSE Err(AWSSdkS3DeleteObjectError, found.msg),
                 steps |-> <<"send">>,
                 existed |-> IsSome(store[file_name])]
     /\ lastWrite' = IF IsOk(found) /\ Applied(req, fault)
                     THEN [lastWrite EXCEPT ![file_name] =
                             [op |-> "delete", existed |-> IsSome(store[file_name])]]
                     ELSE lastWrite
     /\ UNCHANGED <<calls, builder, built, operator>>

\* Operator::delete
Delete(file_name, fault) ==
  LET req == DeleteRequest(operator, file_name)
      out == ServiceDelete(store, req, fault)
  IN /\ store' = out.store
     /\ requests' = <<req>>
     /\ last' = [op |-> "delete", key |-> file_name, src |-> <<>>,
                 mime_type |-> "", cache_control |-> None,
                 fault |-> fault, res |-> DeleteResult(out.sent), steps |-> <<"send">>,
                 existed |-> IsSome(store[file_name])]
     /\ lastWrite' = IF Applied(req, fault)
                     THEN [lastWrite EXCEPT ![file_name] =
                             [op |-> "delete", existed |-> IsSome(store[file_name])]]
                     ELSE lastWrite
     /\ UNCHANGED <<calls, builder, built, operator>>

\* the keys the service may list without a key: none, any one, or all
KeylessChoices(st) ==
  LET present == {k \in DOMAIN st : IsSome(st[k])}
  IN {{}} \cup {{k} : k \in present} \cup {present}

\* Operator::list_objects: one request for each page the loop pulls
ListObjects(keyless, failAt) ==
  LET req == ListObjectsRequest(operator)
      response == ServicePages(store, req, keyless, failAt)
  IN /\ requests' = [p \in 1..PagesPulled(response) |-> req]
     /\ last' = [op |-> "list_objects", key |-> "", src |-> <<>>,
                 mime_type |-> "", cache_control |-> None,
                 fault |-> IF failAt = 0 THEN "none" ELSE "rejected",
                 res |-> ListObjectsResult(response), steps |-> <<"send">>,
                 response |-> response]
     /\ UNCHANGED <<calls, builder, built, operator, store, lastWrite>>

----------------------------------------------------------------------------
(* Concurrent upload_binary calls on one Operator: each call is a future   *)
(* that builds and sends its request, is suspended while the service       *)
(* handles it, and resumes with the SDK's result                           *)

\* the independent call sites
Callers == {"first", "second"}

NoCalls == [t \in Callers |-> [pc |-> "idle"]]

\* BeginUpload with a seeded fault: the Operator keeps one request that every call
\* in flight sends
BeginUploadSharedRequest(t, file_name, binary) ==
  LET req == UploadBinaryRequest(operator, file_name, "text/plain", binary, None)
  IN /\ calls[t].pc = "idle"
     /\ calls' = [u \in Callers |->
                    IF u = t
                    THEN [pc |-> "sent", key |-> file_name, src |-> binary, req |-> req]
                    ELSE IF calls[u].pc = "sent" THEN [calls[u] EXCEPT !.req = req]
                    ELSE calls[u]]
     /\ UNCHANGED <<builder, built, operator, store, last, requests, lastWrite>>

\* upload_binary up to .send().await: the call builds its request from its own
\* arguments and issues it
BeginUpload(t, file_name, binary) ==
  LET req == UploadBinaryRequest(operator, file_name, "text/plain", binary, None)
  IN /\ calls[t].pc = "idle"
     /\ calls' = [calls EXCEPT ![t] =
                    [pc |-> "sent", key |-> file_name, src |-> binary, req |-> req]]
     /\ UNCHANGED <<builder, built, operator, store, last, requests, lastWrite>>

\* the service completes the put request of call t: requests in flight are
\* handled one at a time, in any order
ServiceComplete(t, fault) ==
  LET out == ServicePut(store, calls[t].req, fault)
  IN /\ calls[t].pc = "sent"
     /\ store' = out.store
     /\ calls' = [calls EXCEPT ![t] =
                    [pc |-> "answered", key |-> calls[t].key, src |-> calls[t].src,
                     req |-> calls[t].req, sent |-> out.sent,
                     applied |-> Applied(calls[t].req, fault)]]
     /\ lastWrite' = IF Applied(calls[t].req, fault)
                     THEN [lastWrite EXCEPT ![calls[t].key] =
                             [op |-> "upload_binary", src |-> calls[t].src, by |-> t]]
                     ELSE lastWrite
     /\ UNCHANGED <<builder, built, operator, last, requests>>

\* upload_binary from the resumed .send().await on: the match and the return
ReturnUpload(t) ==
  /\ calls[t].pc = "answered"
  /\ calls' = [calls EXCEPT ![t] =
                 [pc |-> "returned", key |-> calls[t].key, src |-> calls[t].src,
                  req |-> calls[t].req, applied |-> calls[t].applied,
                  res |-> UploadBinaryResult(calls[t].sent)]]
  /\ UNCHANGED <<builder, built, operator, store, last, requests, lastWrite>>

----------------------------------------------------------------------------
(* Specifications                                                          *)

\* the Operators the tests build: every required field set, the region left at
\* its default or set
InitialOperators ==
  {CreateClientResult([bucket_name |-> Some(n), access_key_id |-> Some("AKID"),
                       secret_access_key |-> Some("SECRET"),
                       endpoint |-> Some("https://r2.example"), region |-> "auto"]).val :
     n \in BucketNames}

InitBuild ==
  /\ builder = BuilderDefault
  /\ built = NoBuild
  /\ operator \in {o \in InitialOperators : o.bucket_name = ServiceBucket}
  /\ store = [k \in Keys |-> None]
  /\ last = NoCall
  /\ requests = <<>>
  /\ lastWrite = [k \in Keys |-> NoWrite]
  /\ calls = NoCalls

Init ==
  /\ builder = BuilderDefault
  /\ built = NoBuild
  /\ operator \in InitialOperators
  /\ store = [k \in Keys |-> None]
  /\ last = NoCall
  /\ requests = <<>>
  /\ lastWrite = [k \in Keys |-> NoWrite]
  /\ calls = NoCalls

\* a bucket that served uploads have filled with every listed key
InitPaged ==
  /\ builder = BuilderDefault
  /\ built = NoBuild
  /\ operator \in InitialOperators
  /\ store = [k \in Keys |-> Some(<<1>>)]
  /\ last = NoCall
  /\ requests = <<>>
  /\ lastWrite = [k \in Keys |-> [op |-> "upload_binary", src |-> <<1>>]]
  /\ calls = NoCalls

NextBuild ==
  \/ BuilderNew
  \/ \E s \in BucketNames : SetBucketName(s)
  \/ \E s \in AccessKeyIds : SetAccessKeyId(s)
  \/ \E s \in SecretAccessKeys : SetSecretAccessKey(s)
  \/ \E s \in Endpoints : SetEndpoint(s)
  \/ \E s \in Regions : SetRegion(s)
  \/ DoCreateClientResult
  \/ DoCreateClient

Next ==
  \/ \E k \in OpsKeys, m \in MimeTypes, b \in Bodies, c \in CacheControls, f \in WriteFaults :
       UploadBinary(k, m, b, c, f)
  \/ \E k \in OpsKeys, m \in MimeTypes, p \in Paths, c \in CacheControls, f \in FileFaults :
       UploadFile(k, m, p, c, f)
  \/ \E k \in OpsKeys, f \in ReadFaults : Download(k, f)
  \/ \E k \in OpsKeys, f \in WriteFaults : Delete(k, f)
  \/ \E keyless \in KeylessChoices(store),
        failAt \in 0..NumPages(Entries(store, {}), MaxKeysPerPage) :
       ListObjects(keyless, failAt)

NextList ==
  \/ \E k \in ListKeys : UploadBinary(k, "text/plain", <<1>>, None, "none")
  \/ \E keyless \in KeylessChoices(store),
        failAt \in 0..NumPages(Entries(store, {}), MaxKeysPerPage) :
       ListObjects(keyless, failAt)

\* let object = Builder::new()...create_client_result()?: the caller takes the
\* Operator out of the Ok result
UseOperator ==
  /\ built.via = "create_client_result"
  /\ IsOk(built.res)
  /\ operator' = built.res.val
  /\ UNCHANGED <<calls, builder, built, store, last, requests, lastWrite>>

\* the Operator in use is the one the last build call returned
Connected ==
  /\ built.via = "create_client_result"
  /\ IsOk(built.res)
  /\ operator = built.res.val

NextSession ==
  \/ BuilderNew
  \/ \E s \in BucketNames : SetBucketName(s)
  \/ SetAccessKeyId("AKID")
  \/ SetSecretAccessKey("SECRET")
  \/ SetEndpoint("https://r2.example")
  \/ DoCreateClientResult
  \/ UseOperator
  \/ Connected /\ \E f \in WriteFaults : UploadBinary("a", "text/plain", <<1>>, None, f)
  \/ Connected /\ \E p \in Paths, f \in FileFaults : UploadFile("a", "text/plain", p, None, f)
  \/ Connected /\ \E f \in ReadFaults : Download("a", f)
  \/ Connected /\ \E f \in WriteFaults : Delete("a", f)
  \/ Connected /\ \E failAt \in 0..1 : ListObjects({}, failAt)

NextConc ==
  \/ \E t \in Callers, k \in OpsKeys, b \in Bodies : BeginUpload(t, k, b)
  \/ \E t \in Callers, f \in WriteFaults : ServiceComplete(t, f)
  \/ \E t \in Callers : ReturnUpload(t)

\* the builder: setters and the two build calls
SpecBuild == InitBuild /\ [][NextBuild]_vars

\* the Operator's calls on a bucket of a few keys
Spec == Init /\ [][Next]_vars

\* served uploads of many keys and listings of them, over more than one page
SpecList == Init /\ [][NextList]_vars

\* the Operator's calls on a bucket whose listing takes more than one page
SpecPaged == InitPaged /\ [][Next]_vars

\* two call sites, each making one upload_binary call on the same Operator
SpecConc == Init /\ [][NextConc]_vars

\* a caller that configures a Builder, builds with create_client_result and makes
\* the Operator's calls on what it built
SpecSession == InitBuild /\ [][NextSession]_vars

----------------------------------------------------------------------------
(* Properties of the Builder                                               *)

\* C1: create_client_result returns Ok(Operator) exactly when bucket name, access
\* key id, secret access key and endpoint are all set, and otherwise the error of
\* the first unset field in the order bucket name, access key id, secret access
\* key, endpoint.
C1_CreateClientResultOutcome ==
  built.via = "create_client_result" =>
    LET b == built.from
        r == built.res
    IN /\ IsOk(r) <=> (IsSome(b.bucket_name) /\ IsSome(b.access_key_id) /\
                       IsSome(b.secret_access_key) /\ IsSome(b.endpoint))
       /\ IsOk(r) => r.val.bucket_name = b.bucket_name[1]
       /\ IsNone(b.bucket_name) => r = Err("BuilderError", BucketNameNotSetError)
       /\ (IsSome(b.bucket_name) /\ IsNone(b.access_key_id)) =>
            r = Err("BuilderError", AccessKeyIdNotSetError)
       /\ (IsSome(b.bucket_name) /\ IsSome(b.access_key_id) /\ IsNone(b.secret_access_key)) =>
            r = Err("BuilderError", SecretAccessKeyNotSetError)
       /\ (IsSome(b.bucket_name) /\ IsSome(b.access_key_id) /\
           IsSome(b.secret_access_key) /\ IsNone(b.endpoint)) =>
            r = Err("BuilderError", EndpointNotSetError)

\* create_client_result was called on a builder with no field set
C1_Witness ==
  /\ built.via = "create_client_result"
  /\ built.from = BuilderDefault
  /\ ~IsOk(built.res)

----------------------------------------------------------------------------
(* Properties of the single-object calls                                   *)

\* the last call was a download whose request the service served and whose body
\* arrived whole
DownloadServed ==
  /\ last.op = "download"
  /\ last.fault = "none"
  /\ operator.bucket_name = ServiceBucket

\* C2: when the last write to key k was upload_binary(k, ct, b, _) and the remote
\* calls succeed, download(k) returns Ok with exactly b.
C2_UploadBinaryRoundTrip ==
  (DownloadServed /\ lastWrite[last.key].op = "upload_binary") =>
    last.res = Ok(lastWrite[last.key].src)

\* a served download of a non-empty body that upload_binary wrote
C2_Witness ==
  /\ DownloadServed
  /\ lastWrite[last.key].op = "upload_binary"
  /\ Len(lastWrite[last.key].src) > 0

\* C3: when the last write to key k was upload_file(k, ct, f, _) of a readable
\* file f and the remote calls succeed, download(k) returns the full content of f.
C3_UploadFileRoundTrip ==
  (DownloadServed /\ lastWrite[last.key].op = "upload_file") =>
    /\ IsSome(FileSystem[lastWrite[last.key].src])
    /\ last.res = Ok(FileSystem[lastWrite[last.key].src][1])

\* a served download of a file of more than one byte that upload_file wrote
C3_Witness ==
  /\ DownloadServed
  /\ lastWrite[last.key].op = "upload_file"
  /\ Len(FileSystem[lastWrite[last.key].src][1]) > 1

\* C4: when the last write to a previously uploaded key k was a delete(k) that
\* took effect, download(k) does not return the old content: it returns an
\* error of kind GetObjectError, whatever the environment does to the download.
C4_DeleteThenDownloadFails ==
  (last.op = "download" /\ lastWrite[last.key].op = "delete" /\ lastWrite[last.key].existed) =>
    IsErr(last.res, AWSSdkS3GetObjectError)

\* a download, itself undisturbed, of a key whose stored object a delete removed
C4_Witness ==
  /\ last.op = "download"
  /\ last.fault = "none"
  /\ lastWrite[last.key].op = "delete"
  /\ lastWrite[last.key].existed

\* the step is a call of delete that the service serves
DeleteServedStep ==
  /\ last'.op = "delete"
  /\ Served(DeleteRequest(operator, last'.key), last'.fault)

\* C5: a served delete(k) returns Ok(()) whether or not k exists, issues the one
\* delete request and no other (no existence check), fails only when the request
\* failed, leaves the stored keys unchanged when k does not exist, and a second
\* delete(k) right after it ends in the same bucket with the same result.
C5_DeleteAbsentKey ==
  [][/\ DeleteServedStep =>
          /\ last'.res = Ok(Unit)
          /\ requests' = <<DeleteRequest(operator, last'.key)>>
          /\ IsNone(store[last'.key]) => store' = store
          /\ IsNone(store'[last'.key])
     /\ (last'.op = "delete" /\ ~IsOk(last'.res)) =>
          (~Served(DeleteRequest(operator, last'.key), last'.fault) /\ Len(requests') = 1)
     /\ (last.op = "delete" /\ IsOk(last.res) /\ DeleteServedStep /\ last'.key = last.key) =>
          (store' = store /\ last'.res = last.res)]_vars

\* a served delete of a key that is not in the bucket
C5_Witness ==
  /\ last.op = "delete"
  /\ ~last.existed
  /\ IsOk(last.res)

\* the get-object request of the last download succeeded
GetRequestOk ==
  /\ Served(DownloadRequest(operator, last.key), last.fault)
  /\ IsSome(store[last.key])

\* C10: download returns GetObjectError when the get-object request fails (a
\* missing key included), ByteStreamError when the request succeeds and reading
\* the body fails, Ok when both succeed; the body is read only after the request
\* succeeded.
C10_DownloadErrorKinds ==
  last.op = "download" =>
    /\ ~GetRequestOk => (IsErr(last.res, AWSSdkS3GetObjectError) /\ last.steps = <<"send">>)
    /\ (GetRequestOk /\ last.fault = "body") =>
         (IsErr(last.res, AWSSdkS3ByteStreamError) /\ last.steps = <<"send", "collect">>)
    /\ (GetRequestOk /\ last.fault /= "body") =>
         (IsOk(last.res) /\ last.steps = <<"send", "collect">>)
    /\ (\E i \in 1..Len(last.steps) : last.steps[i] = "collect") => GetRequestOk

\* a download whose request succeeded and whose body could not be read
C10_Witness ==
  /\ last.op = "download"
  /\ GetRequestOk
  /\ last.fault = "body"

----------------------------------------------------------------------------
(* Properties of list_objects                                              *)

\* every page request of the last list_objects call was served
AllPagesOk(response) == \A p \in 1..Len(response) : IsOk(response[p])

\* every entry of every served page carries its key
AllKeyed(response) ==
  \A p \in 1..Len(response) :
    IsOk(response[p]) =>
      \A i \in 1..Len(response[p].val.contents) : IsSome(response[p].val.contents[i].key)

\* the number of entries on the pages before page p
RECURSIVE EntriesBefore(_, _)
EntriesBefore(response, p) ==
  IF p = 1 THEN 0
  ELSE EntriesBefore(response, p - 1) + Len(response[p - 1].val.contents)

\* the keys that were uploaded
Uploaded == {k \in Keys : lastWrite[k].op \in {"upload_binary", "upload_file"}}

\* C6: after uploading N distinct keys into an otherwise empty bucket, a
\* list_objects whose page requests are all served, every entry with its key,
\* returns the N keys, each exactly once; N > 10 takes more than one page.
C6_ListingComplete ==
  (/\ last.op = "list_objects"
   /\ last.fault = "none"
   /\ operator.bucket_name = ServiceBucket
   /\ AllKeyed(last.response)) =>
    /\ IsOk(last.res)
    /\ Len(last.res.val) = Cardinality(Uploaded)
    /\ \A k \in Uploaded :
         Cardinality({i \in 1..Len(last.res.val) : last.res.val[i] = k}) = 1

\* a served listing of more keys than one page holds
C6_Witness ==
  /\ last.op = "list_objects"
  /\ last.fault = "none"
  /\ AllKeyed(last.response)
  /\ Cardinality(Uploaded) > MaxKeysPerPage
  /\ Len(last.response) > 1

\* C7: every page request of list_objects asks for at most 10 keys, no page holds
\* more, and when every page is served the result is the pages' entries in page
\* order and, within a page, in the order of the page: as many as were listed,
\* each key at the position of its entry.
C7_ListingConcatenatesPages ==
  last.op = "list_objects" =>
    /\ Len(requests) = Len(last.response)
    /\ \A i \in 1..Len(requests) :
         requests[i].op = "list_objects_v2" /\ requests[i].max_keys = 10
    /\ \A p \in 1..Len(last.response) :
         IsOk(last.response[p]) => Len(last.response[p].val.contents) <= 10
    /\ AllPagesOk(last.response) =>
         /\ IsOk(last.res)
         /\ Len(last.res.val) = EntriesBefore(last.response, Len(last.response) + 1)
         /\ \A p \in 1..Len(last.response) :
              \A i \in 1..Len(last.response[p].val.contents) :
                IsSome(last.response[p].val.contents[i].key) =>
                  last.res.val[EntriesBefore(last.response, p) + i] =
                    last.response[p].val.contents[i].key[1]

\* a listing of two served pages, the first one full
C7_Witness ==
  /\ last.op = "list_objects"
  /\ Len(last.response) = 2
  /\ AllPagesOk(last.response)
  /\ Len(last.response[1].val.contents) = MaxKeysPerPage
  /\ Len(last.response[2].val.contents) > 0

\* C8: when a page request of list_objects fails, after served pages or not, the
\* call returns ListObjectsError with the message of that failure and nothing
\* else: no key of an earlier page.
C8_ListingFailsWhole ==
  (last.op = "list_objects" /\ ~AllPagesOk(last.response)) =>
    \E p \in 1..Len(last.response) :
      /\ ~IsOk(last.response[p])
      /\ \A q \in 1..(p - 1) : IsOk(last.response[q])
      /\ last.res = Err(AWSSdkS3ListObjectsV2Error, last.response[p].msg)
      /\ DOMAIN last.res = {"ok", "kind", "msg"}

\* the second page request failed after a full first page was served
C8_Witness ==
  /\ last.op = "list_objects"
  /\ Len(last.response) = 2
  /\ IsOk(last.response[1])
  /\ Len(last.response[1].val.contents) = MaxKeysPerPage
  /\ ~IsOk(last.response[2])

\* C9: an entry without a key is recorded as "Unknown" at the position of the
\* entry: the call does not fail for it and the result is as long as the pages
\* have entries.
C9_KeylessEntryIsUnknown ==
  (last.op = "list_objects" /\ AllPagesOk(last.response)) =>
    /\ IsOk(last.res)
    /\ Len(last.res.val) = EntriesBefore(last.response, Len(last.response) + 1)
    /\ \A p \in 1..Len(last.response) :
         \A i \in 1..Len(last.response[p].val.contents) :
           IsNone(last.response[p].val.contents[i].key) =>
             last.res.val[EntriesBefore(last.response, p) + i] = "Unknown"

\* a served listing with a key-less entry on its second page, after keyed entries
C9_Witness ==
  /\ last.op = "list_objects"
  /\ Len(last.response) = 2
  /\ AllPagesOk(last.response)
  /\ IsSome(last.response[1].val.contents[1].key)
  /\ \E i \in 1..Len(last.response[2].val.contents) :
       IsNone(last.response[2].val.contents[i].key)

----------------------------------------------------------------------------
(* Properties of the error reporting                                       *)

\* whether the file of the upload_file call `call` can be opened and read to its end
FileReadable(call) == IsSome(FileSystem[call.src]) /\ call.fault /= "read"

\* C11: an upload_file call whose local file cannot be opened or cannot be read
\* to its end returns FileOpenError, issues no put-object request and leaves the
\* bucket as it was; once the file has been read, a failure of the remote
\* request is reported as AWSSdkS3PutObjectError and never as FileOpenError.
C11_UploadFileErrorKinds ==
  [][last'.op = "upload_file" =>
       /\ ~FileReadable(last') =>
            /\ IsErr(last'.res, FileOpenError)
            /\ requests' = <<>>
            /\ store' = store
       /\ FileReadable(last') =>
            /\ Len(requests') = 1
            /\ requests'[1].op = "put_object"
            /\ ~IsErr(last'.res, FileOpenError)
            /\ ~Served(requests'[1], last'.fault) =>
                 IsErr(last'.res, AWSSdkS3PutObjectError)]_vars

\* an upload_file call of a readable file whose put-object request failed, on a
\* bucket that holds an object
C11_Witness ==
  /\ last.op = "upload_file"
  /\ FileReadable(last)
  /\ Len(requests) = 1
  /\ ~Served(requests[1], last.fault)
  /\ IsErr(last.res, AWSSdkS3PutObjectError)
  /\ \E k \in OpsKeys : IsSome(store[k])

\* C12: a failed remote request is reported with the error kind of the
\* operation that issued it and with the text of the transport error: a
\* put-object failure as AWSSdkS3PutObjectError by upload_binary and upload_file
\* alike, a get-object failure as AWSSdkS3GetObjectError, a delete-object failure
\* as AWSSdkS3DeleteObjectError, a failed listing page as
\* AWSSdkS3ListObjectsV2Error; none of them is returned as Ok.
C12_RemoteFailureKinds ==
  /\ (/\ last.op \in {"upload_binary", "upload_file"}
      /\ Len(requests) = 1
      /\ ~Served(requests[1], last.fault)) =>
       last.res = Err(AWSSdkS3PutObjectError, SdkErrorText(requests[1], last.fault))
  /\ (last.op = "download" /\ ~GetRequestOk) =>
       last.res = Err(AWSSdkS3GetObjectError, SdkErrorText(requests[1], last.fault))
  /\ (last.op = "delete" /\ ~Served(requests[1], last.fault)) =>
       last.res = Err(AWSSdkS3DeleteObjectError, SdkErrorText(requests[1], last.fault))
  /\ (last.op = "list_objects" /\ ~AllPagesOk(last.response)) =>
       \E p \in 1..Len(last.response) :
         /\ ~IsOk(last.response[p])
         /\ last.res = Err(AWSSdkS3ListObjectsV2Error, last.response[p].msg)

\* a delete whose request was applied by the service while its response was lost
C12_Witness ==
  /\ last.op = "delete"
  /\ last.fault = "lost"
  /\ last.existed
  /\ IsNone(store[last.key])
  /\ IsErr(last.res, AWSSdkS3DeleteObjectError)

\* C13 as stated: every call of upload_binary, upload_file, download and
\* delete issues exactly one remote request.
C13_EveryCallOneRequest ==
  last.op \in {"upload_binary", "upload_file", "download", "delete"} => Len(requests) = 1

\* C13: no operation retries.  A call of upload_binary, download or delete issues
\* exactly one remote request whether that request succeeds or fails; a call of
\* upload_file issues exactly one once its file has been read and none when the
\* file cannot be opened or read; list_objects issues one request for each page
\* up to the first failed one and none after it; a failed request ends the call
\* with its error.
C13_NoRetry ==
  /\ last.op \in {"upload_binary", "download", "delete"} => Len(requests) = 1
  /\ last.op = "upload_file" => Len(requests) = (IF FileReadable(last) THEN 1 ELSE 0)
  /\ (/\ last.op \in {"upload_binary", "upload_file", "delete"}
      /\ Len(requests) = 1
      /\ ~Served(requests[1], last.fault)) => ~IsOk(last.res)
  /\ (last.op = "download" /\ ~GetRequestOk) => (~IsOk(last.res) /\ last.steps = <<"send">>)
  /\ last.op = "list_objects" =>
       /\ Len(requests) = Len(last.response)
       /\ \A p \in 1..Len(last.response) - 1 : IsOk(last.response[p])
       /\ ~AllPagesOk(last.response) => ~IsOk(last.res)

\* a listing whose first page request failed while the bucket holds more entries
\* than one page
C13_Witness ==
  /\ last.op = "list_objects"
  /\ Len(Entries(store, {})) > MaxKeysPerPage
  /\ Len(requests) = 1
  /\ ~IsOk(last.response[1])
  /\ ~IsOk(last.res)

----------------------------------------------------------------------------
(* Properties of concurrent calls                                          *)

\* C14: when two upload calls to the same key run concurrently on the same
\* Operator, each issues its own put request, built from its own arguments; a
\* call in flight can always take its next step, whatever the other call does,
\* so both return; and once both have returned, the stored object is the whole
\* body of the upload whose write completed last, never a mixture of the two
\* bodies and never the body written before it.
C14_LastCompletedWriteWins ==
  /\ \A t \in Callers :
       calls[t].pc /= "idle" =>
         /\ calls[t].req.bucket = operator.bucket_name
         /\ calls[t].req.key = calls[t].key
         /\ Collect(calls[t].req.body) = Ok(calls[t].src)
  /\ \A t \in Callers :
       /\ calls[t].pc = "sent" => \A f \in WriteFaults : ENABLED ServiceComplete(t, f)
       /\ calls[t].pc = "answered" => ENABLED ReturnUpload(t)
  /\ \A t \in Callers, u \in Callers :
       (/\ t /= u
        /\ calls[t].pc = "returned" /\ calls[u].pc = "returned"
        /\ calls[t].key = calls[u].key
        /\ calls[t].applied /\ calls[u].applied
        /\ lastWrite[calls[t].key].by = t) =>
         store[calls[t].key] = Some(calls[t].src)

\* both calls wrote the same key with different bodies and returned Ok; the call
\* that began second was written first
C14_Witness ==
  /\ calls["first"].pc = "returned" /\ calls["second"].pc = "returned"
  /\ calls["first"].key = calls["second"].key
  /\ calls["first"].src /= calls["second"].src
  /\ IsOk(calls["first"].res) /\ IsOk(calls["second"].res)
  /\ lastWrite[calls["first"].key].by = "first"
  /\ store[calls["first"].key] = Some(calls["first"].src)

----------------------------------------------------------------------------
(* Properties of the Operator's state                                      *)

\* C15: no call of upload_binary, upload_file, download, delete or list_objects,
\* successful or failed, changes the Operator's bucket name or client handle,
\* and every request a call issues names the bucket the Operator was built with.
C15_OperatorImmutable ==
  [][/\ operator' = operator
     /\ \A i \in 1..Len(requests') : requests'[i].bucket = operator.bucket_name]_vars

\* a failed delete on a bucket that an earlier, served upload has written
C15_Witness ==
  /\ last.op = "delete"
  /\ ~IsOk(last.res)
  /\ Len(requests) = 1
  /\ requests[1].bucket = operator.bucket_name
  /\ \E k \in OpsKeys : lastWrite[k].op \in {"upload_binary", "upload_file"}

----------------------------------------------------------------------------
(* Properties of the client configuration                                  *)

\* C16: every client a build call returns, from create_client_result and from
\* the legacy create_client alike, is configured with request-checksum
\* calculation and response-checksum validation set to "when required".
C16_ChecksumsWhenRequired ==
  (built.via \in {"create_client_result", "create_client"} /\ IsOk(built.res)) =>
    /\ built.res.val.client.request_checksum_calculation = Some("WhenRequired")
    /\ built.res.val.client.response_checksum_validation = Some("WhenRequired")

\* every required field of builder b is set
AllSet(b) ==
  /\ IsSome(b.bucket_name) /\ IsSome(b.access_key_id)
  /\ IsSome(b.secret_access_key) /\ IsSome(b.endpoint)

\* C17: the region of a new Builder is "auto" and changes only when set_region
\* is called (or the caller starts over with a new Builder); set_region(r) makes
\* it exactly r and touches no other field; a build passes the builder's region
\* to the client as it is, whatever string it holds; and a build fails exactly
\* when a required field is unset, never because of the region.
C17_Region ==
  /\ builder.region = "auto"
  /\ [][/\ builder'.region /= builder.region =>
            \/ \E r \in Regions : builder' = [builder EXCEPT !.region = r]
            \/ builder' = [bucket_name |-> None, access_key_id |-> None,
                           secret_access_key |-> None, endpoint |-> None,
                           region |-> "auto"]
        /\ built' /= built =>
             /\ IsOk(built'.res) <=> AllSet(built'.from)
             /\ IsOk(built'.res) => built'.res.val.client.region = built'.from.region]_vars

\* create_client_result succeeded on a builder whose region was set to a string
\* that names no region
C17_Witness ==
  /\ built.via = "create_client_result"
  /\ IsOk(built.res)
  /\ built.from.region = ""
  /\ built.res.val.client.region = ""

----------------------------------------------------------------------------
(* Properties of the upload requests                                       *)

\* C18: the put-object request of upload_binary and of upload_file carries the
\* cache-control value "no-cache" when the caller supplied none and exactly the
\* supplied value otherwise, and always the supplied mime type as content type.
C18_UploadHeaders ==
  (last.op \in {"upload_binary", "upload_file"} /\ Len(requests) = 1) =>
    /\ IsNone(last.cache_control) => requests[1].cache_control = "no-cache"
    /\ IsSome(last.cache_control) => requests[1].cache_control = last.cache_control[1]
    /\ requests[1].content_type = last.mime_type

\* an upload_file call with a cache-control value of the caller's has sent its request
C18_Witness ==
  /\ last.op = "upload_file"
  /\ Len(requests) = 1
  /\ last.cache_control = Some("max-age=60")
  /\ requests[1].cache_control = "max-age=60"
  /\ requests[1].content_type = "image/jpeg"

----------------------------------------------------------------------------
(* Properties of a whole session: build, then operate                      *)

\* C19: a build call performs no remote request: whether it returns a
\* configuration error or an Operator, no request is issued and the bucket is
\* not touched by it; a complete configuration is accepted whatever its values,
\* so a wrong one shows only when the first operation fails.
C19_BuildIssuesNoRequest ==
  [][/\ built' /= built =>
          /\ requests' = requests
          /\ store' = store
          /\ last' = last
          /\ IsOk(built'.res) <=> AllSet(built'.from)
     /\ last.op = "none" => requests = <<>>]_vars

\* an Operator built for a bucket the service does not have was returned without
\* complaint, and its first call failed
C19_Witness ==
  /\ Connected
  /\ operator.bucket_name /= ServiceBucket
  /\ last.op = "list_objects"
  /\ Len(requests) = 1
  /\ ~IsOk(last.res)

\* the error kinds of OperationError
OperationErrors ==
  {FileOpenError, AWSSdkS3PutObjectError, AWSSdkS3GetObjectError,
   AWSSdkS3DeleteObjectError, AWSSdkS3ListObjectsV2Error, AWSSdkS3ByteStreamError}

\* C20: in every sequence of calls to create_client_result, upload_binary,
\* upload_file, download, delete and list_objects no call aborts: a build on an
\* incomplete configuration returns a BuilderError, an unreadable file, a failed
\* request and an unreadable body return an OperationError, and no outcome is a
\* panic.
C20_NoPanic ==
  /\ ~IsOk(built.res) => built.res.kind = "BuilderError"
  /\ (built.via = "create_client_result" /\ ~AllSet(built.from)) => ~IsOk(built.res)
  /\ ~IsOk(last.res) => last.res.kind \in OperationErrors
  /\ (last.op = "upload_file" /\ ~FileReadable(last)) => ~IsOk(last.res)
  /\ (/\ last.op \in {"upload_binary", "upload_file", "delete"}
      /\ Len(requests) = 1
      /\ ~Served(requests[1], last.fault)) => ~IsOk(last.res)
  /\ (/\ last.op = "download"
      /\ \/ ~Served(requests[1], last.fault)
         \/ IsNone(store[last.key])
         \/ last.fault = "body") => ~IsOk(last.res)
  /\ (last.op = "list_objects" /\ ~AllPagesOk(last.response)) => ~IsOk(last.res)

\* a build on an incomplete configuration has returned its error and, on the
\* Operator built before, an upload_file call could not open its file
C20_Witness ==
  /\ built.via = "create_client_result"
  /\ ~IsOk(built.res)
  /\ last.op = "upload_file"
  /\ IsNone(FileSystem[last.src])
  /\ IsErr(last.res, FileOpenError)

----------------------------------------------------------------------------
(* Properties of the two build calls                                       *)

\* the two build calls were made one after the other on the same builder
BuiltBothWays ==
  /\ built.via \in {"create_client_result", "create_client"}
  /\ built'.via \in {"create_client_result", "create_client"}
  /\ built'.via /= built.via
  /\ built'.from = built.from

\* C21: the legacy create_client aborts for exactly the builder states for which
\* create_client_result returns an error, those with at least one of the four
\* required fields unset, and for every other builder state it returns an
\* Operator with the bucket name of the one create_client_result returns.
C21_LegacyAgreesWithResult ==
  [][BuiltBothWays =>
       /\ IsOk(built'.res) <=> IsOk(built.res)
       /\ IsOk(built.res) <=> AllSet(built.from)
       /\ ~IsOk(built.res) =>
            /\ built.res.kind = (IF built.via = "create_client" THEN "panic" ELSE "BuilderError")
            /\ built'.res.kind = (IF built'.via = "create_client" THEN "panic" ELSE "BuilderError")
       /\ IsOk(built.res) =>
            /\ built'.res.val.bucket_name = built.res.val.bucket_name
            /\ built.res.val.bucket_name = built.from.bucket_name[1]]_vars

\* the legacy create_client aborted on a builder that lacks only its bucket name
C21_Witness ==
  /\ built.via = "create_client"
  /\ IsNone(built.from.bucket_name)
  /\ IsSome(built.from.access_key_id)
  /\ IsSome(built.from.secret_access_key)
  /\ IsSome(built.from.endpoint)
  /\ IsErr(built.res, "panic")

----------------------------------------------------------------------------
(* Properties of the setters                                               *)

\* C22: from every builder state, whatever the field held before, each of
\* set_bucket_name, set_access_key_id, set_secret_access_key and set_endpoint
\* called with s leaves the builder with that field holding s, the empty string
\* included, and its other four fields as they were; and create_client_result
\* reports a field as missing only when it is unset, so a field set to the empty
\* string is not reported.
C22_SettersStore ==
  /\ \A s \in BucketNames :
       ENABLED (SetBucketName(s) /\ builder' = [builder EXCEPT !.bucket_name = Some(s)])
  /\ \A s \in AccessKeyIds :
       ENABLED (SetAccessKeyId(s) /\ builder' = [builder EXCEPT !.access_key_id = Some(s)])
  /\ \A s \in SecretAccessKeys :
       ENABLED (SetSecretAccessKey(s) /\
                builder' = [builder EXCEPT !.secret_access_key = Some(s)])
  /\ \A s \in Endpoints :
       ENABLED (SetEndpoint(s) /\ builder' = [builder EXCEPT !.endpoint = Some(s)])
  /\ built.via = "create_client_result" =>
       /\ built.res = Err("BuilderError", BucketNameNotSetError) =>
            IsNone(built.from.bucket_name)
       /\ built.res = Err("BuilderError", AccessKeyIdNotSetError) =>
            IsNone(built.from.access_key_id)
       /\ built.res = Err("BuilderError", SecretAccessKeyNotSetError) =>
            IsNone(built.from.secret_access_key)
       /\ built.res = Err("BuilderError", EndpointNotSetError) =>
            IsNone(built.from.endpoint)
       /\ AllSet(built.from) => IsOk(built.res)

\* create_client_result accepted a builder whose four fields were all set to the
\* empty string, and two of the fields were set again afterwards
C22_Witness ==
  /\ built.via = "create_client_result"
  /\ IsOk(built.res)
  /\ built.from.bucket_name = Some("")
  /\ built.from.access_key_id = Some("")
  /\ built.from.secret_access_key = Some("")
  /\ built.from.endpoint = Some("")
  /\ builder.bucket_name = Some("test-bucket")
  /\ builder.endpoint = Some("https://r2.example")
  /\ builder.access_key_id = Some("")

----------------------------------------------------------------------------
(* Properties of the legacy build call                                     *)

\* C23: the legacy create_client aborts with the message of the first unset
\* field in the order access key id, secret access key, endpoint, bucket name:
\* with no field set the message is "Access key id is not set.", and a missing
\* bucket name is reported only when the other three fields are set.
C23_LegacyPanicOrder ==
  built.via = "create_client" =>
    LET b == built.from
        r == built.res
    IN /\ IsNone(b.access_key_id) => r = Err("panic", "Access key id is not set.")
       /\ (IsSome(b.access_key_id) /\ IsNone(b.secret_access_key)) =>
            r = Err("panic", "Secret access key is not set.")
       /\ (IsSome(b.access_key_id) /\ IsSome(b.secret_access_key) /\ IsNone(b.endpoint)) =>
            r = Err("panic", "Endpoint is not set.")
       /\ (IsSome(b.access_key_id) /\ IsSome(b.secret_access_key) /\
           IsSome(b.endpoint) /\ IsNone(b.bucket_name)) =>
            r = Err("panic", "Bucket name is not set.")
       /\ r = Err("panic", "Bucket name is not set.") =>
            (IsSome(b.access_key_id) /\ IsSome(b.secret_access_key) /\ IsSome(b.endpoint))

\* the legacy create_client was called on a builder that lacks its bucket name
\* and its endpoint, and named the endpoint
C23_Witness ==
  /\ built.via = "create_client"
  /\ IsNone(built.from.bucket_name)
  /\ IsNone(built.from.endpoint)
  /\ IsSome(built.from.access_key_id)
  /\ IsSome(built.from.secret_access_key)
  /\ built.res = Err("panic", "Endpoint is not set.")

\* C24: a build call, create_client_result or create_client, leaves the Builder
\* as it was; its outcome is decided by the builder's fields at the call alone,
\* so building the same builder again gives the same outcome, and a builder whose
\* build failed builds successfully as soon as all four fields are set.
C24_BuildLeavesBuilder ==
  [][/\ built' /= built =>
          /\ builder' = builder
          /\ built'.from = builder
          /\ IsOk(built'.res) <=> AllSet(builder)
     /\ (builder' = builder /\ built.from = builder /\ built'.via = built.via) =>
          built'.res = built.res
     /\ (built.via /= "none" /\ ~IsOk(built.res) /\ built' /= built /\ AllSet(builder)) =>
          IsOk(built'.res)]_vars

\* create_client_result has returned an Operator and the builder it was called on
\* still holds every field it held at the call
C24_Witness ==
  /\ built.via = "create_client_result"
  /\ IsOk(built.res)
  /\ built.from = builder
  /\ AllSet(builder)

====
